---- MODULE Spec2Model ----
(***************************************************************************)
(* state-guard: a versioned state machine with stale snapshot invalidation. *)
(*                                                                         *)
(* Two implementations are modelled side by side, selected by `variant`:   *)
(*   "createMachine" : the transformer based machine, which reports the    *)
(*                     errors of listeners to console.error and goes on;   *)
(*   "createStore"   : the schema backed store, which validates the new    *)
(*                     value with a schema and rolls a transition back     *)
(*                     when a listener throws.                             *)
(*                                                                         *)
(* An action call runs user code (the listeners) in its middle, so it is   *)
(* split at these boundaries: pc = "idle" is the code outside any call of  *)
(* the machine, pc = "notifying" is notify() between two listeners and     *)
(* pc = "listener" is the body of a listener.  A listener may use the      *)
(* whole interface of the machine, as the outside code does.  Transformers *)
(* and schemas compute a value or throw; only in NestSpec does a           *)
(* transformer call the machine (pc = "transformer").                      *)
(*                                                                         *)
(* Nine specifications share the actions:                                  *)
(*   Spec     : both variants; subscribe is called without a signal and    *)
(*              console.error returns;                                     *)
(*   SinkSpec : Spec with a console.error that can throw;                  *)
(*   SubSpec  : createMachine with every subscribe call followed on its    *)
(*              own: its unsubscribe function and its signal;              *)
(*   PrevSpec : createMachine constructed from every table of two states,  *)
(*              with getPrevStates;                                        *)
(*   NewSpec  : the construction as a step of its own, with initial values *)
(*              that the schema accepts, rejects or strips.                *)
(*   ResubSpec: SubSpec with listeners that unsubscribe and subscribe      *)
(*              again in one go;                                           *)
(*   NestSpec : createMachine with transformers that call the machine;     *)
(*   LoopSpec : the notification cycle without its histories, with weak    *)
(*              fairness of the loop, for termination;                     *)
(*   FiredSpec: SubSpec with subscribe calls whose signal has fired before *)
(*              the call.                                                  *)
(*                                                                         *)
(* A Symbol() is a natural number taken from the counter nextVersion, and  *)
(* a snapshot object is named by the version it captured (createSnapshot   *)
(* is called exactly once per minted version).                             *)
(***************************************************************************)
EXTENDS Integers, Sequences, FiniteSets, TLC

VARIABLES
  variant,          \* which implementation this instance is
  transitionsMap,   \* the transitionsMap given at construction
  keys,             \* the states in the order of Object.entries(transitionsMap)
  prevStatesMap,    \* prevStatesMap of createMachine
  currentState,     \* currentState / actualState
  currentValue,     \* currentValue / actualValue
  currentVersion,   \* currentVersion / actualVersion
  currentSnapshot,  \* currentSnapshot / actualSnapshot
  notifying,        \* the notifying flag
  listeners,        \* the Set of listeners, in insertion order
  nextVersion,      \* the next Symbol() to be minted
  pc,               \* "idle", "notifying" or "listener"
  idx,              \* how many entries of listeners the for-of loop has passed
  previous,         \* previousState, previousValue, previousVersion, previousSnapshot of the action call
  failures,         \* how many action calls failed to compute the new value
  ops,              \* how many calls of the interface the running listener has made
  returned,         \* history: the snapshot returned by the latest action call that returned
  created,          \* history: state and value of the machine when each snapshot was created
  extractable,      \* history: the action functions <<version, newState>> a caller may hold
  superseded,       \* history: the snapshots that a returned action call has left behind
  invoked,          \* history: the listeners invoked by the running action call, in order
  reported,         \* history: how many errors the running action call gave to console.error
  gotten,           \* history: the snapshot the latest get since the latest commit returned, 0: none
  registered,       \* history: the registered listener functions, in the order of their registration
  registrations,    \* the subscribe calls made so far: listener, signal, and whether still active
  touched,          \* history: a subscribe, unsubscribe or abort happened in the running cycle
  changed,          \* history: the listeners added to or deleted from the set in the running cycle
  delivered,        \* history: the subscribe calls whose listener the running cycle has invoked
  outer,            \* the action call whose transformer is running: its newState and its arguments
  via,              \* history: the snapshot the action function that has committed was read from, 0: none
  successes,        \* history: the snapshots of the action calls that have returned a snapshot, in order
  thrown,           \* history: the errors the listeners of the running cycle have thrown, in order
  sunk,             \* history: the arguments console.error has received in the running cycle, in order
  last              \* history: the latest call of the interface and its outcome

vars == <<variant, transitionsMap, keys, prevStatesMap, currentState, currentValue, currentVersion,
          currentSnapshot, notifying, listeners, nextVersion, pc, idx, previous,
          failures, ops, returned, created, extractable, superseded, invoked, reported,
          gotten, registered, registrations, touched, changed, delivered, thrown, sunk, outer,
          via, successes, last>>

machine == <<currentState, currentValue, currentVersion, currentSnapshot>>

(***************************************************************************)
(* Bounds.                                                                 *)
(***************************************************************************)
MaxVersion == 4       \* Symbol() calls, the one of the construction included
MaxListeners == 2     \* distinct listener functions
MaxInvocations == 2   \* listener calls per notification cycle
MaxOps == 1           \* calls of the interface per listener call
MaxFailures == 1      \* action calls whose transformer or schema throws
MaxRegistrations == 2 \* subscribe calls whose unsubscribe function and signal are followed
MaxResubscriptions == 1 \* listener bodies that unsubscribe and subscribe a listener again

(***************************************************************************)
(* Inputs: the fixtures of the test suites.                                *)
(***************************************************************************)
Variants == {"createMachine", "createStore"}

TrafficLight ==
  [s \in {"red", "turningGreen", "green", "turningRed"} |->
     CASE s = "red" -> [turnGreen |-> "turningGreen"]
       [] s = "turningGreen" -> [setGreen |-> "green"]
       [] s = "green" -> [turnRed |-> "turningRed"]
       [] s = "turningRed" -> [setRed |-> "red"]]

EdgeCase ==
  [s \in {"full", ""} |->
     CASE s = "full" -> [empty |-> ""]
       [] s = "" -> [fill |-> "full"]]

\* a table whose only action leads back into its source state
SelfLoop == [s \in {"current"} |-> [set |-> "current"]]

TransitionsMaps == {TrafficLight, EdgeCase, SelfLoop}

\* the initialState the fixture is constructed with
initialState(map) ==
  IF map = TrafficLight THEN "red" ELSE IF map = EdgeCase THEN "full" ELSE "current"

\* Object.keys of the fixture: its states in the order they are written in
keysOf(map) ==
  IF map = TrafficLight THEN <<"red", "turningGreen", "green", "turningRed">>
  ELSE IF map = EdgeCase THEN <<"full", "">>
  ELSE <<"current">>

\* the tables of two states with at most two actions each, for getPrevStates
States == {"A", "B"}
ActionNames == {"go", "back"}
Transitions == UNION {[names -> States] : names \in SUBSET ActionNames}
Tables == [States -> Transitions]
Orders == {<<"A", "B">>, <<"B", "A">>}

Colors == {"#FF0000", "#FFFF00"}
Oops == "oops"
Throw == [color |-> "<throw>"]
Listeners == 1..MaxListeners

\* the arguments an action function is called with
Args(v) ==
  IF v = "createMachine" THEN Colors \cup {Oops}
  ELSE [color : Colors \cup {Oops}]

\* transformerMap[newState](...args): (color) => ({color}), or a transformer that throws
transformerMap(newState, arg) ==
  IF arg = Oops THEN Throw ELSE [color |-> arg]

\* valueSchemaMap[state].parse(value): the validated value, a new object with
\* the keys of the schema only, or an error
parse(newState, val) ==
  IF val.color \in Colors THEN [color |-> val.color] ELSE Throw

\* the initial values a machine is constructed with: valid ones, one that the
\* schema rejects and valid ones with a key the schema does not know
InitialValues ==
  [color : Colors \cup {Oops}] \cup {[color |-> c, extra |-> TRUE] : c \in Colors}

Range(f) == {f[x] : x \in DOMAIN f}

\* the action functions that can be read from the actions of the snapshot of
\* version `version` while the machine is in state `st`
actionsOf(map, st, version) == {<<version, d>> : d \in Range(map[st])}

\* the machine as the locals previousState .. previousSnapshot keep it
Saved ==
  [state |-> currentState, value |-> currentValue,
   version |-> currentVersion, snapshot |-> currentSnapshot]

Pending ==
  [op |-> "call", arg |-> "-", fresh |-> FALSE, res |-> "pending", ret |-> 0,
   inListener |-> FALSE]

\* no transformer is running
NoOuter == [newState |-> "-", arg |-> "-", via |-> 0]

NoCall ==
  [op |-> "none", arg |-> "-", fresh |-> TRUE, res |-> "ok", ret |-> 0, inListener |-> FALSE]

\* the loop body of the construction of prevStatesMap: the states whose
\* transitions include `st`, pushed in the order of the entries of the table
prevStatesOfSuccessors(map, order, st) ==
  SelectSeq(order, LAMBDA otherState : otherState \in Range(map[st]))

\* the same loop pushing otherState once for every action that leads to `st`
prevStatesOfPerAction(map, order, st) ==
  LET pushed[i \in 0..Len(order)] ==
        IF i = 0 THEN <<>>
        ELSE pushed[i - 1] \o
             [k \in 1..Cardinality({a \in DOMAIN map[order[i]] : map[order[i]][a] = st})
                |-> order[i]]
  IN pushed[Len(order)]

prevStatesOf(map, order, st) ==
  SelectSeq(order, LAMBDA otherState : st \in Range(map[otherState]))

\* the machine right after its construction from a table, the order of the
\* keys of the table and an initial state
Construct ==
  /\ prevStatesMap = [st \in DOMAIN transitionsMap |-> prevStatesOf(transitionsMap, keys, st)]
  /\ currentValue = [color |-> "#FF0000"]
  /\ currentVersion = 1
  /\ currentSnapshot = 1
  /\ nextVersion = 2
  /\ notifying = FALSE
  /\ listeners = <<>>
  /\ pc = "idle"
  /\ idx = 0
  /\ previous = Saved
  /\ failures = 0
  /\ ops = 0
  /\ returned = 1
  /\ created = [v \in {1} |-> [state |-> currentState, value |-> currentValue]]
  /\ extractable = actionsOf(transitionsMap, currentState, 1)
  /\ superseded = {}
  /\ invoked = <<>>
  /\ reported = 0
  /\ gotten = 0
  /\ registered = <<>>
  /\ registrations = <<>>
  /\ touched = FALSE
  /\ changed = {}
  /\ delivered = {}
  /\ outer = NoOuter
  /\ via = 0
  /\ successes = <<>>
  /\ thrown = <<>>
  /\ sunk = <<>>
  /\ last = NoCall

Init ==
  /\ variant \in Variants
  /\ transitionsMap \in TransitionsMaps
  /\ keys = keysOf(transitionsMap)
  /\ currentState = initialState(transitionsMap)
  /\ Construct

(***************************************************************************)
(* createSnapshot: the accessors of a snapshot.                            *)
(***************************************************************************)
StaleSnapshot == "StaleSnapshot"
IllegalTransition == "IllegalTransition"

\* assertVersion(): TRUE when it returns, FALSE when it throws
assertVersionLax(version) == TRUE

assertVersion(version) == version = currentVersion

\* get state()
state(version) == IF assertVersion(version) THEN currentState ELSE StaleSnapshot

\* get value()
value(version) == IF assertVersion(version) THEN currentValue ELSE Throw

\* get actions(), and the get trap of the actions proxy
actions(version) == IF assertVersion(version) THEN "ok" ELSE StaleSnapshot

Snapshots == 1..(nextVersion - 1)

\* the code that runs may call the interface
Ctx == pc = "idle" \/ (pc = "listener" /\ ops < MaxOps) \/ pc = "transformer"

\* one more call of the interface by the running listener
Count == ops' = IF pc = "listener" THEN ops + 1 ELSE ops

\* the outcome of a call of the interface: what was called, whether the snapshot it
\* was called on was fresh, "ok" or the error thrown, and the snapshot returned (0: none)
Outcome(op, arg, version, res, ret) ==
  [op |-> op, arg |-> arg, fresh |-> version = currentVersion, res |-> res, ret |-> ret,
   inListener |-> pc = "listener"]

\* a read of snapshot.state, snapshot.value, snapshot.actions or actions[name]:
\* all four call assertVersion() first
Read ==
  /\ Ctx
  /\ \E version \in Snapshots :
       last' = Outcome("read", "-", version, actions(version), 0)
  /\ Count
  /\ UNCHANGED <<variant, transitionsMap, keys, outer, via, successes, prevStatesMap, thrown, sunk, delivered, changed, registered, registrations, touched, gotten, failures, machine, notifying, listeners, nextVersion,
                 pc, idx, previous, returned, created, extractable,
                 superseded, invoked, reported>>

\* the property names read from an actions proxy: the action names of the
\* transitions map and a symbol
UnknownAction == "UnknownAction"
TypeError == "TypeError"

PropertyNames ==
  UNION {DOMAIN transitionsMap[s] : s \in DOMAIN transitionsMap} \cup {"Symbol()"}

\* transitionsMap[currentState][actionName]
newStateOf(actionName) ==
  IF actionName \in DOMAIN transitionsMap[currentState]
  THEN transitionsMap[currentState][actionName]
  ELSE "undefined"

\* the get trap of the actions proxy: createStore throws when newState is
\* undefined, createMachine returns an action function for every name
actionsGet(v, version, actionName) ==
  IF ~assertVersion(version) THEN StaleSnapshot
  ELSE IF v = "createStore" /\ newStateOf(actionName) = "undefined" THEN UnknownAction
  ELSE "function"

\* a read of actions[actionName] for a name that is no action of the live state
ActionsGet ==
  /\ Ctx
  /\ \E version \in Snapshots, actionName \in PropertyNames :
       /\ assertVersion(version)
       /\ newStateOf(actionName) = "undefined"
       /\ last' = Outcome("actions.get", actionName, version,
                          actionsGet(variant, version, actionName), 0)
  /\ Count
  /\ UNCHANGED <<variant, transitionsMap, keys, outer, via, successes, prevStatesMap, thrown, sunk, delivered, changed, registered, registrations, touched, gotten, failures, machine, notifying, listeners, nextVersion,
                 pc, idx, previous, returned, created, extractable,
                 superseded, invoked, reported>>

\* get(expectedState): expectedState = "undefined" stands for get()
getResultTruthy(expectedState) ==
  IF expectedState = "undefined" \/ expectedState = "" \/ expectedState = currentState
  THEN currentSnapshot ELSE 0

getResultCopy(expectedState) ==
  IF expectedState = "undefined" \/ expectedState = currentState
  THEN (IF gotten = 0 THEN currentSnapshot ELSE gotten + 1) ELSE 0

getResultPrevious(expectedState) ==
  IF expectedState = "undefined" \/ expectedState = currentState
  THEN (IF notifying THEN previous.snapshot ELSE currentSnapshot) ELSE 0

getResult(expectedState) ==
  IF expectedState = "undefined" \/ expectedState = currentState
  THEN currentSnapshot ELSE 0

Get ==
  /\ Ctx
  /\ \E expectedState \in DOMAIN transitionsMap \cup {"undefined"} :
       /\ last' = Outcome("get", IF expectedState = "" THEN "''" ELSE "-", currentVersion,
                          "ok", getResult(expectedState))
       /\ gotten' = IF getResult(expectedState) # 0 THEN getResult(expectedState) ELSE gotten
  /\ Count
  /\ UNCHANGED <<variant, transitionsMap, keys, outer, via, successes, prevStatesMap, thrown, sunk, delivered, changed, registered, registrations, touched, failures, machine, notifying, listeners, nextVersion,
                 pc, idx, previous, returned, created, extractable,
                 superseded, invoked, reported>>

\* assert(...expectedStates) of createMachine
UnexpectedState == "UnexpectedState"

\* the argument lists assert is called with
Expected ==
  {<<"red">>, <<"red", "green">>, <<"turningGreen", "turningRed">>, <<"">>, <<"full", "">>}

\* expectedStates.some((expectedState) => expectedState === currentState)
someFirst(expectedStates) == expectedStates[1] = currentState

some(expectedStates) ==
  \E i \in DOMAIN expectedStates : expectedStates[i] = currentState

assertCall ==
  /\ Ctx
  /\ variant = "createMachine"
  /\ \E expectedStates \in Expected :
       /\ Range(expectedStates) \subseteq DOMAIN transitionsMap
       /\ last' = Outcome("assert", expectedStates, currentVersion,
                          IF some(expectedStates) THEN "ok" ELSE UnexpectedState,
                          IF some(expectedStates) THEN currentSnapshot ELSE 0)
  /\ Count
  /\ UNCHANGED <<variant, transitionsMap, keys, outer, via, successes, prevStatesMap, thrown, sunk, delivered, changed, registered, registrations, touched, gotten, failures, machine, notifying, listeners, nextVersion,
                 pc, idx, previous, returned, created, extractable,
                 superseded, invoked, reported>>

\* getPrevStates(state) of createMachine: the array kept in prevStatesMap
getPrevStates(st) == prevStatesMap[st]

GetPrevStates ==
  /\ Ctx
  /\ variant = "createMachine"
  /\ \E st \in DOMAIN transitionsMap :
       last' = Outcome("getPrevStates", <<st, getPrevStates(st)>>, currentVersion, "ok", 0)
  /\ Count
  /\ UNCHANGED <<variant, transitionsMap, keys, outer, via, successes, prevStatesMap, thrown, sunk, delivered, changed, registered, registrations, touched, gotten, failures, machine, notifying, listeners, nextVersion,
                 pc, idx, previous, returned, created, extractable,
                 superseded, invoked, reported>>

(***************************************************************************)
(* subscribe and the unsubscribe function it returns.  listeners is a Set: *)
(* adding a member again changes nothing, a new member goes to the end,    *)
(* and the for-of loop of notify() is live: it visits what is added behind *)
(* its position and skips what is deleted before it is reached.            *)
(***************************************************************************)
Elems(seq) == {seq[i] : i \in 1..Len(seq)}

IndexOf(seq, x) == CHOOSE i \in 1..Len(seq) : seq[i] = x

\* listeners.add(listener)
addFirst(seq, listener) == IF listener \in Elems(seq) THEN seq ELSE <<listener>> \o seq

\* the same, ignored while a notification cycle is in progress
addWhenIdle(seq, listener) ==
  IF notifying \/ listener \in Elems(seq) THEN seq ELSE Append(seq, listener)

add(seq, listener) == IF listener \in Elems(seq) THEN seq ELSE Append(seq, listener)

\* listeners.delete(listener)
deleteNothing(seq, listener) == seq

delete(seq, listener) == SelectSeq(seq, LAMBDA x : x # listener)

Subscribe ==
  /\ Ctx
  /\ \E listener \in Listeners :
       /\ listeners' = add(listeners, listener)
       /\ registered' = IF \E i \in DOMAIN registered : registered[i] = listener
                        THEN registered
                        ELSE registered \o <<listener>>
       /\ changed' = IF pc = "listener" /\ listener \notin Elems(listeners)
                     THEN changed \cup {listener} ELSE changed
  /\ last' = Outcome("subscribe", "-", currentVersion, "ok", 0)
  /\ Count
  /\ UNCHANGED <<variant, transitionsMap, keys, outer, via, successes, prevStatesMap, thrown, sunk, delivered, registrations, touched, gotten, failures, machine, notifying, nextVersion, pc, idx,
                 previous, returned, created, extractable, superseded, invoked, reported>>

Unsubscribe ==
  /\ Ctx
  /\ \E listener \in Elems(listeners) :
       /\ listeners' = delete(listeners, listener)
       /\ idx' = IF IndexOf(listeners, listener) <= idx THEN idx - 1 ELSE idx
       /\ registered' = SelectSeq(registered, LAMBDA x : x # listener)
       /\ changed' = IF pc = "listener" THEN changed \cup {listener} ELSE changed
  /\ last' = Outcome("unsubscribe", "-", currentVersion, "ok", 0)
  /\ Count
  /\ UNCHANGED <<variant, transitionsMap, keys, outer, via, successes, prevStatesMap, thrown, sunk, delivered, registrations, touched, gotten, failures, machine, notifying, nextVersion, pc,
                 previous, returned, created, extractable, superseded,
                 invoked, reported>>

(***************************************************************************)
(* subscribe with its options, the unsubscribe function of each subscribe   *)
(* call and the abort event of its signal.  A registration is one subscribe *)
(* call: its listener, the state of its signal ("none": no signal was       *)
(* given, "armed": unsubscribe listens for abort, "detached": unsubscribe   *)
(* has removed itself from the signal, "fired": the signal has fired) and   *)
(* whether neither its unsubscribe function nor its signal has cancelled it.*)
(***************************************************************************)
Signals == {"none", "armed"}

\* the body of unsubscribe: listeners.delete(listener)
unsubscribeDeferred(listener) ==
  /\ listeners' = IF pc = "listener" THEN listeners ELSE delete(listeners, listener)
  /\ idx' = idx
  /\ registered' = SelectSeq(registered, LAMBDA x : x # listener)
  /\ changed' = IF pc = "listener" /\ listener \in Elems(listeners)
                THEN changed \cup {listener} ELSE changed

unsubscribe(listener) ==
  /\ listeners' = delete(listeners, listener)
  /\ idx' = IF listener \in Elems(listeners) /\ IndexOf(listeners, listener) <= idx
            THEN idx - 1 ELSE idx
  /\ registered' = SelectSeq(registered, LAMBDA x : x # listener)
  /\ changed' = IF pc = "listener" /\ listener \in Elems(listeners)
                THEN changed \cup {listener} ELSE changed

\* the subscribe calls of a listener that nothing has cancelled
Active(l) ==
  {r \in DOMAIN registrations : registrations[r].active /\ registrations[r].listener = l}

\* a subscribe, unsubscribe or abort made by a listener
Touch == touched' = (touched \/ pc = "listener")

SubscribeWith ==
  /\ Ctx
  /\ Len(registrations) < MaxRegistrations
  /\ \E listener \in Listeners, signal \in Signals :
       /\ listeners' = add(listeners, listener)
       /\ registered' = IF \E i \in DOMAIN registered : registered[i] = listener
                        THEN registered
                        ELSE registered \o <<listener>>
       /\ registrations' = Append(registrations,
                                  [listener |-> listener, signal |-> signal, active |-> TRUE])
       /\ changed' = IF pc = "listener" /\ listener \notin Elems(listeners)
                     THEN changed \cup {listener} ELSE changed
  /\ last' = Outcome("subscribe", Len(registrations) + 1, currentVersion, "ok", 0)
  /\ Touch
  /\ Count
  /\ UNCHANGED <<variant, transitionsMap, keys, outer, via, successes, prevStatesMap, thrown, sunk, delivered, gotten, failures, machine, notifying, nextVersion,
                 pc, idx, previous, returned, created, extractable, superseded, invoked,
                 reported>>

\* subscribe called with a signal that has fired before the call ("aborted"):
\* addEventListener on it registers a listener for an event that does not
\* come again
SubscribeAborted ==
  /\ Ctx
  /\ Len(registrations) < MaxRegistrations
  /\ \E listener \in Listeners :
       /\ listeners' = add(listeners, listener)
       /\ registered' = IF \E i \in DOMAIN registered : registered[i] = listener
                        THEN registered
                        ELSE registered \o <<listener>>
       /\ registrations' = Append(registrations,
                                  [listener |-> listener, signal |-> "aborted", active |-> TRUE])
       /\ changed' = IF pc = "listener" /\ listener \notin Elems(listeners)
                     THEN changed \cup {listener} ELSE changed
  /\ last' = Outcome("subscribe", Len(registrations) + 1, currentVersion, "ok", 0)
  /\ Touch
  /\ Count
  /\ UNCHANGED <<variant, transitionsMap, keys, outer, via, successes, prevStatesMap, thrown, sunk, delivered, gotten, failures, machine, notifying, nextVersion,
                 pc, idx, previous, returned, created, extractable, superseded, invoked,
                 reported>>

\* a call of the unsubscribe function that subscribe call r returned
UnsubscribeFn ==
  /\ Ctx
  /\ \E r \in DOMAIN registrations :
       /\ unsubscribe(registrations[r].listener)
       /\ registrations' =
            [registrations EXCEPT ![r].active = FALSE,
                                  ![r].signal = IF @ = "armed" THEN "detached" ELSE @]
       /\ last' = Outcome("unsubscribe", r, currentVersion, "ok", 0)
  /\ Touch
  /\ Count
  /\ UNCHANGED <<variant, transitionsMap, keys, outer, via, successes, prevStatesMap, thrown, sunk, delivered, gotten, failures, machine, notifying, nextVersion,
                 pc, previous, returned, created, extractable, superseded, invoked, reported>>

\* the signal given to subscribe call r fires: its abort listeners are called
Abort ==
  /\ Ctx
  /\ \E r \in DOMAIN registrations :
       /\ registrations[r].signal \in {"armed", "detached"}
       /\ IF registrations[r].signal = "armed"
          THEN unsubscribe(registrations[r].listener)
          ELSE UNCHANGED <<listeners, idx, registered, changed>>
       /\ registrations' =
            [registrations EXCEPT ![r].active = FALSE, ![r].signal = "fired"]
       /\ last' = Outcome("abort", r, currentVersion, "ok", 0)
  /\ Touch
  /\ Count
  /\ UNCHANGED <<variant, transitionsMap, keys, outer, via, successes, prevStatesMap, thrown, sunk, delivered, gotten, failures, machine, notifying, nextVersion,
                 pc, previous, returned, created, extractable, superseded, invoked, reported>>

\* a listener body that calls the unsubscribe function of subscribe call r and
\* then subscribes the listener of that call again, without a signal
Resubscribe ==
  /\ pc = "listener"
  /\ ops < MaxOps
  /\ Len(registrations) < MaxRegistrations + MaxResubscriptions
  /\ \E r \in DOMAIN registrations :
       LET listener == registrations[r].listener
       IN /\ listeners' = add(delete(listeners, listener), listener)
          /\ idx' = IF listener \in Elems(listeners) /\ IndexOf(listeners, listener) <= idx
                    THEN idx - 1 ELSE idx
          /\ registered' = SelectSeq(registered, LAMBDA x : x # listener) \o <<listener>>
          /\ registrations' =
               Append([registrations EXCEPT
                         ![r].active = FALSE,
                         ![r].signal = IF @ = "armed" THEN "detached" ELSE @],
                      [listener |-> listener, signal |-> "none", active |-> TRUE])
          /\ changed' = changed \cup {listener}
          /\ last' = Outcome("resubscribe", r, currentVersion, "ok", 0)
  /\ Touch
  /\ Count
  /\ UNCHANGED <<variant, transitionsMap, keys, outer, via, successes, prevStatesMap, thrown, sunk, delivered, gotten, failures, machine, notifying, nextVersion,
                 pc, previous, returned, created, extractable, superseded, invoked, reported>>

(***************************************************************************)
(* The action function (...args) => {...} read from the actions of the     *)
(* snapshot of version `version`, with the newState it was created with.   *)
(***************************************************************************)
\* if (notifying) throw
reentrantNever == FALSE

reentrant == notifying

\* the two checks an action function makes before it computes anything
checkNothing(version) == "ok"

checkFreshnessFirst(version) ==
  IF ~assertVersion(version) THEN StaleSnapshot
  ELSE IF reentrant THEN IllegalTransition
  ELSE "ok"

check(version) ==
  IF reentrant THEN IllegalTransition
  ELSE IF ~assertVersion(version) THEN StaleSnapshot
  ELSE "ok"

\* Symbol(): a token that is equal to no other one
SymbolReused == IF nextVersion > 2 THEN 1 ELSE nextVersion

SymbolSame == currentVersion

Symbol == nextVersion

\* the new value of the transition: the transformer's result or the parsed value
newValueKept(v, newState, arg) == currentValue

newValueOf(v, newState, arg) ==
  IF v = "createMachine" THEN transformerMap(newState, arg) ELSE parse(newState, arg)

\* the live state when the computation of the new value has thrown:
\* createMachine computes the value before it assigns anything, createStore
\* assigns actualState = newState before it calls parse
stateOnFailureEager(v, newState) == newState

stateOnFailure(v, newState) ==
  IF v = "createMachine" THEN currentState ELSE newState

failure(v) == IF v = "createMachine" THEN "TransformerError" ELSE "InvalidValue"

\* the assignments of a transition and the entry of notify()
Commit(newState, newValue, arg) ==
  /\ nextVersion <= MaxVersion
  /\ previous' = Saved
  /\ currentState' = newState
  /\ currentValue' = newValue
  /\ currentVersion' = Symbol
  /\ currentSnapshot' = nextVersion
  /\ nextVersion' = nextVersion + 1
  /\ created' = created @@ (nextVersion :> [state |-> newState, value |-> newValue])
  /\ extractable' = extractable \cup actionsOf(transitionsMap, newState, nextVersion)
  /\ notifying' = TRUE
  /\ pc' = "notifying"
  /\ idx' = 0
  /\ last' = [op |-> "commit", arg |-> arg, fresh |-> TRUE, res |-> "pending", ret |-> 0,
              inListener |-> FALSE]
  /\ gotten' = 0
  /\ UNCHANGED <<variant, transitionsMap, keys, successes, prevStatesMap, thrown, sunk, delivered, changed, registered, registrations, touched, failures, listeners, ops, returned, superseded,
                 invoked, reported>>

\* the new value could not be computed: the error leaves the action function
\* before notify() is reached; the previous* locals die with the call, and
\* `previous` follows the machine so that it stays equal to Saved outside a call
Fail(newState) ==
  /\ failures < MaxFailures
  /\ failures' = failures + 1
  /\ currentState' = stateOnFailure(variant, newState)
  /\ extractable' = extractable \cup actionsOf(transitionsMap, currentState', currentVersion)
  /\ previous' = [previous EXCEPT !.state = currentState']
  /\ last' = Outcome("call", "value", currentVersion, failure(variant), 0)
  /\ UNCHANGED <<variant, transitionsMap, keys, via, successes, prevStatesMap, thrown, sunk, delivered, changed, registered, registrations, touched, gotten, currentValue, currentVersion, currentSnapshot,
                 notifying, listeners, nextVersion, pc, idx, ops, returned,
                 created, superseded, invoked, reported>>

\* the call threw before it touched anything
RejectMinting(version, res) ==
  /\ last' = Outcome("call", "check", version, res, 0)
  /\ Count
  /\ currentVersion' = Symbol
  /\ nextVersion' = nextVersion + 1
  /\ created' = created @@ (nextVersion :> [state |-> currentState, value |-> currentValue])
  /\ UNCHANGED <<variant, transitionsMap, keys, outer, via, successes, prevStatesMap, thrown, sunk, delivered, changed, registered, registrations, touched, gotten, failures, currentState,
                 currentValue, currentSnapshot, notifying, listeners, pc, idx, previous,
                 returned, extractable, superseded, invoked, reported>>

Reject(version, res) ==
  /\ last' = Outcome("call", "check", version, res, 0)
  /\ Count
  /\ UNCHANGED <<variant, transitionsMap, keys, outer, via, successes, prevStatesMap, thrown, sunk, delivered, changed, registered, registrations, touched, gotten, failures, machine, notifying, listeners, nextVersion,
                 pc, idx, previous, returned, created, extractable,
                 superseded, invoked, reported>>

\* the action functions a caller may hold: those of the action names, and in
\* createMachine those read for any other name (newState is undefined) from a
\* snapshot while it was fresh; such a read changes nothing, so it is not recorded
Held ==
  extractable \cup
    (IF variant = "createMachine" THEN {<<version, "undefined">> : version \in Snapshots} ELSE {})

ActionFn ==
  /\ Ctx
  /\ UNCHANGED outer
  /\ \E fn \in Held, arg \in Args(variant) :
       LET version == fn[1]
           newState == fn[2]
       IN IF check(version) # "ok" THEN Reject(version, check(version))
          ELSE IF newState = "undefined" THEN Reject(version, TypeError)
          ELSE IF newValueOf(variant, newState, arg) = Throw THEN Fail(newState)
          ELSE /\ Commit(newState, newValueOf(variant, newState, arg), arg)
               /\ via' = version

\* an action function of createMachine passes its two checks and calls the
\* transformer of newState, which calls the machine before it returns
TransformerEnter ==
  /\ pc = "idle"
  /\ variant = "createMachine"
  /\ outer = NoOuter
  /\ \E fn \in Held, arg \in Args(variant) :
       /\ check(fn[1]) = "ok"
       /\ fn[2] # "undefined"
       /\ outer' = [newState |-> fn[2], arg |-> arg, via |-> fn[1]]
       /\ last' = Outcome("transformer", arg, fn[1], "pending", 0)
  /\ pc' = "transformer"
  /\ UNCHANGED <<variant, transitionsMap, keys, via, successes, prevStatesMap, thrown, sunk, delivered, changed, registered, registrations, touched, gotten, failures, machine, notifying, listeners, nextVersion,
                 idx, ops, previous, returned, created, extractable, superseded, invoked, reported>>

\* that transformer returns its value or throws, and the action function
\* goes on with its assignments and notify()
TransformerReturn ==
  /\ pc = "transformer"
  /\ outer' = NoOuter
  /\ IF newValueOf(variant, outer.newState, outer.arg) = Throw
     THEN /\ failures < MaxFailures
          /\ failures' = failures + 1
          /\ pc' = "idle"
          /\ last' = Outcome("call", "value", currentVersion, failure(variant), 0)
          /\ UNCHANGED <<variant, transitionsMap, keys, via, successes, prevStatesMap, thrown, sunk, delivered, changed, registered, registrations, touched, gotten, machine, notifying, listeners, nextVersion,
                         idx, ops, previous, returned, created, extractable, superseded, invoked, reported>>
     ELSE /\ via' = outer.via
          /\ Commit(outer.newState, newValueOf(variant, outer.newState, outer.arg),
                    outer.arg)

(***************************************************************************)
(* notify(): the for-of loop over listeners.                               *)
(***************************************************************************)
\* what notify() does with the error of a listener: createMachine catches it
\* and reports it, createStore lets it leave the loop
catchesNever(v) == FALSE

catchesAlways(v) == TRUE

catches(v) == v = "createMachine"

\* the catch block of the action function of createStore
rollbackWithoutSnapshot ==
  [state |-> previous.state, value |-> previous.value,
   version |-> previous.version, snapshot |-> currentSnapshot]

rollbackWithoutState ==
  [state |-> currentState, value |-> previous.value,
   version |-> previous.version, snapshot |-> previous.snapshot]

rollbackWithoutVersion ==
  [state |-> previous.state, value |-> previous.value,
   version |-> currentVersion, snapshot |-> previous.snapshot]

rollback ==
  [state |-> previous.state, value |-> previous.value,
   version |-> previous.version, snapshot |-> previous.snapshot]

\* the loop calls the next listener
ListenerEnter ==
  /\ pc = "notifying"
  /\ idx < Len(listeners)
  /\ Len(invoked) < MaxInvocations
  /\ idx' = idx + 1
  /\ pc' = "listener"
  /\ invoked' = Append(invoked, listeners[idx + 1])
  /\ delivered' = delivered \cup Active(listeners[idx + 1])
  /\ ops' = 0
  /\ last' = [op |-> "enter", arg |-> "-", fresh |-> TRUE, res |-> "ok", ret |-> 0,
              inListener |-> TRUE]
  /\ UNCHANGED <<variant, transitionsMap, keys, outer, via, successes, prevStatesMap, thrown, sunk, changed, registered, registrations, touched, gotten, failures, machine, notifying, listeners, nextVersion,
                 previous, returned, created, extractable, superseded, reported>>

\* the listener returns
ListenerReturn ==
  /\ pc = "listener"
  /\ pc' = "notifying"
  /\ last' = Pending
  /\ ops' = 0
  /\ UNCHANGED <<variant, transitionsMap, keys, outer, via, successes, prevStatesMap, thrown, sunk, delivered, changed, registered, registrations, touched, gotten, failures, machine, notifying, listeners, nextVersion, idx,
                 previous, returned, created, extractable, superseded,
                 invoked, reported>>

\* console.error(error) in the catch block of the loop: one more call, with
\* the error the listener threw
consoleErrorFirst(calls, error) == <<error>> \o calls

consoleError(calls, error) == Append(calls, error)

\* the errors the running listener can throw: one of its own, or the one
\* its latest call of the machine threw
Errors ==
  {"oops"} \cup (IF last.inListener /\ last.res # "ok" THEN {last.res} ELSE {})

\* the listener throws
ListenerThrow ==
  /\ pc = "listener"
  /\ \E error \in Errors :
       IF catches(variant)
       THEN /\ reported' = reported + 1
            /\ thrown' = Append(thrown, error)
            /\ sunk' = consoleError(sunk, error)
            /\ pc' = "notifying"
            /\ last' = Pending
            /\ ops' = 0
            /\ UNCHANGED <<variant, transitionsMap, keys, outer, via, successes, prevStatesMap, delivered, changed, registered, registrations, touched, gotten, failures, machine, notifying, listeners,
                           nextVersion, idx, previous, returned, created,
                           extractable, superseded, invoked>>
       ELSE /\ notifying' = FALSE
            /\ currentState' = rollback.state
            /\ currentValue' = rollback.value
            /\ currentVersion' = rollback.version
            /\ currentSnapshot' = rollback.snapshot
            /\ pc' = "idle"
            /\ idx' = 0
            /\ invoked' = <<>>
            /\ reported' = 0
            /\ last' = [op |-> "call", arg |-> "listener", fresh |-> TRUE, res |-> error,
                        ret |-> 0, inListener |-> FALSE]
            /\ ops' = 0
            /\ touched' = FALSE
            /\ changed' = {}
            /\ delivered' = {}
            /\ via' = 0
            /\ thrown' = <<>>
            /\ sunk' = <<>>
            /\ UNCHANGED <<variant, transitionsMap, keys, outer, successes, prevStatesMap, registered, registrations, gotten, failures, listeners, nextVersion, previous,
                           returned, created, extractable, superseded>>

\* the listener throws and console.error, called with its error, throws too:
\* the error leaves the catch block, notify() and the action function, past
\* the assignment notifying = false
SinkThrow ==
  /\ pc = "listener"
  /\ catches(variant)
  /\ pc' = "idle"
  /\ idx' = 0
  /\ ops' = 0
  /\ invoked' = <<>>
  /\ reported' = 0
  /\ touched' = FALSE
  /\ changed' = {}
  /\ delivered' = {}
  /\ via' = 0
  /\ thrown' = <<>>
  /\ sunk' = <<>>
  /\ previous' = Saved
  /\ last' = [op |-> "call", arg |-> "sink", fresh |-> TRUE, res |-> "SinkError", ret |-> 0,
              inListener |-> FALSE]
  /\ UNCHANGED <<variant, transitionsMap, keys, outer, successes, prevStatesMap, registered, registrations, gotten, failures, machine,
                 notifying, listeners, nextVersion, returned, created, extractable, superseded>>

\* the loop calls the next listener; the invocations of the cycle are not
\* recorded, so that a cycle which goes on for ever is a loop of states
Visit ==
  /\ pc = "notifying"
  /\ idx < Len(listeners)
  /\ idx' = idx + 1
  /\ pc' = "listener"
  /\ delivered' = delivered \cup Active(listeners[idx + 1])
  /\ ops' = 0
  /\ last' = [op |-> "enter", arg |-> "-", fresh |-> TRUE, res |-> "ok", ret |-> 0,
              inListener |-> TRUE]
  /\ UNCHANGED <<variant, transitionsMap, keys, outer, via, successes, prevStatesMap, thrown, sunk, changed, registered, registrations, touched, gotten, failures, machine, notifying, listeners, nextVersion,
                 previous, returned, created, extractable, superseded, invoked, reported>>

\* a listener body that unsubscribes a listener and subscribes it again
Renew ==
  /\ pc = "listener"
  /\ ops < MaxOps
  /\ \E listener \in Elems(listeners) :
       /\ listeners' = add(delete(listeners, listener), listener)
       /\ idx' = IF IndexOf(listeners, listener) <= idx THEN idx - 1 ELSE idx
       /\ registered' = SelectSeq(registered, LAMBDA x : x # listener) \o <<listener>>
       /\ changed' = changed \cup {listener}
  /\ last' = Outcome("resubscribe", "-", currentVersion, "ok", 0)
  /\ Count
  /\ UNCHANGED <<variant, transitionsMap, keys, outer, via, successes, prevStatesMap, thrown, sunk, delivered, registrations, touched, gotten, failures, machine, notifying, nextVersion,
                 pc, previous, returned, created, extractable, superseded, invoked, reported>>

\* the loop is over: notifying = false, and the action function returns currentSnapshot
NotifyDone ==
  /\ pc = "notifying"
  /\ idx >= Len(listeners)
  /\ notifying' = FALSE
  /\ pc' = IF outer = NoOuter THEN "idle" ELSE "transformer"
  /\ idx' = 0
  /\ returned' = currentSnapshot
  /\ superseded' = superseded \cup (Snapshots \ {currentSnapshot})
  /\ invoked' = <<>>
  /\ reported' = 0
  /\ previous' = Saved
  /\ last' = [op |-> "call", arg |-> "return", fresh |-> TRUE, res |-> "ok",
              ret |-> currentSnapshot, inListener |-> FALSE]
  /\ touched' = FALSE
  /\ changed' = {}
  /\ delivered' = {}
  /\ successes' = Append(successes, via)
  /\ via' = 0
  /\ thrown' = <<>>
  /\ sunk' = <<>>
  /\ UNCHANGED <<variant, transitionsMap, keys, outer, prevStatesMap, registered, registrations, gotten, failures, machine, listeners, nextVersion,
                 ops, created, extractable>>

Next ==
  \/ Read
  \/ Get
  \/ assertCall
  \/ ActionsGet
  \/ Subscribe
  \/ Unsubscribe
  \/ ActionFn
  \/ ListenerEnter
  \/ ListenerReturn
  \/ ListenerThrow
  \/ NotifyDone

Spec == Init /\ [][Next]_vars

\* the machine with a console.error that can throw
SinkNext ==
  \/ Read
  \/ Get
  \/ assertCall
  \/ ActionsGet
  \/ Subscribe
  \/ Unsubscribe
  \/ ActionFn
  \/ ListenerEnter
  \/ ListenerReturn
  \/ ListenerThrow
  \/ SinkThrow
  \/ NotifyDone

SinkSpec == Init /\ [][SinkNext]_vars

\* the subscriptions of one machine, each subscribe call followed on its own
SubInit ==
  /\ Init
  /\ variant = "createMachine"
  /\ transitionsMap = EdgeCase

SubNext ==
  \/ SubscribeWith
  \/ UnsubscribeFn
  \/ Abort
  \/ ActionFn
  \/ ListenerEnter
  \/ ListenerReturn
  \/ ListenerThrow
  \/ NotifyDone

SubSpec == SubInit /\ [][SubNext]_vars

(***************************************************************************)
(* The construction as a step: pc = "new" is the code that has no machine  *)
(* yet and calls createMachine or createStore.                             *)
(***************************************************************************)
None == [color |-> "<none>"]

NewInit ==
  /\ variant \in Variants
  /\ transitionsMap \in TransitionsMaps
  /\ keys = keysOf(transitionsMap)
  /\ prevStatesMap = [st \in DOMAIN transitionsMap |-> <<>>]
  /\ currentState = "undefined"
  /\ currentValue = None
  /\ currentVersion = 0
  /\ currentSnapshot = 0
  /\ nextVersion = 1
  /\ notifying = FALSE
  /\ listeners = <<>>
  /\ pc = "new"
  /\ idx = 0
  /\ previous = Saved
  /\ failures = 0
  /\ ops = 0
  /\ returned = 0
  /\ created = <<>>
  /\ extractable = {}
  /\ superseded = {}
  /\ invoked = <<>>
  /\ reported = 0
  /\ gotten = 0
  /\ registered = <<>>
  /\ registrations = <<>>
  /\ touched = FALSE
  /\ changed = {}
  /\ delivered = {}
  /\ outer = NoOuter
  /\ via = 0
  /\ successes = <<>>
  /\ thrown = <<>>
  /\ sunk = <<>>
  /\ last = NoCall

\* the value the machine starts with: createStore parses initialValue with the
\* schema of initialState, createMachine takes it as it is
initialValueUnparsed(v, st, initialValue) == initialValue

initialValueOf(v, st, initialValue) ==
  IF v = "createStore" THEN parse(st, initialValue) ELSE initialValue

\* createStore({initialState, initialValue, ...}), createMachine({...})
createStore ==
  /\ pc = "new"
  /\ \E initialValue \in InitialValues :
       LET st == initialState(transitionsMap)
           val == initialValueOf(variant, st, initialValue)
       IN IF val = Throw
          THEN /\ last' = [op |-> "createStore", arg |-> initialValue, fresh |-> TRUE,
                           res |-> "InvalidInitialValue", ret |-> 0, inListener |-> FALSE]
               /\ UNCHANGED <<prevStatesMap, machine, nextVersion, pc, previous, returned,
                              created, extractable>>
          ELSE /\ prevStatesMap' =
                    [d \in DOMAIN transitionsMap |-> prevStatesOf(transitionsMap, keys, d)]
               /\ currentState' = st
               /\ currentValue' = val
               /\ currentVersion' = Symbol
               /\ currentSnapshot' = nextVersion
               /\ nextVersion' = nextVersion + 1
               /\ previous' = [state |-> st, value |-> val, version |-> Symbol,
                               snapshot |-> nextVersion]
               /\ returned' = nextVersion
               /\ created' = (nextVersion :> [state |-> st, value |-> val])
               /\ extractable' = actionsOf(transitionsMap, st, nextVersion)
               /\ pc' = "idle"
               /\ last' = [op |-> "createStore", arg |-> initialValue, fresh |-> TRUE,
                           res |-> "ok", ret |-> nextVersion, inListener |-> FALSE]
  /\ UNCHANGED <<variant, transitionsMap, keys, registered, registrations, touched, changed,
                 delivered, thrown, sunk, outer, via, successes, gotten, failures, notifying, listeners, idx, ops, superseded, invoked, reported>>

NewNext ==
  \/ createStore
  \/ Read
  \/ Get
  \/ ActionFn
  \/ NotifyDone

NewSpec == NewInit /\ [][NewNext]_vars

\* the subscriptions of one machine, with listeners that subscribe again
ResubNext ==
  \/ SubscribeWith
  \/ UnsubscribeFn
  \/ Abort
  \/ Resubscribe
  \/ ActionFn
  \/ ListenerEnter
  \/ ListenerReturn
  \/ ListenerThrow
  \/ NotifyDone

ResubSpec == SubInit /\ [][ResubNext]_vars

\* the subscriptions of one machine, some with a signal that has fired already
FiredNext ==
  \/ SubscribeWith
  \/ SubscribeAborted
  \/ UnsubscribeFn
  \/ Abort
  \/ ActionFn
  \/ ListenerEnter
  \/ ListenerReturn
  \/ ListenerThrow
  \/ NotifyDone

FiredSpec == SubInit /\ [][FiredNext]_vars

\* the notification cycles of one machine whose listeners subscribe again:
\* the loop goes on to the next listener, a listener invocation returns, and
\* notify() returns when the loop is over
LoopNext ==
  \/ Subscribe
  \/ Unsubscribe
  \/ ActionFn
  \/ Visit
  \/ Renew
  \/ ListenerReturn
  \/ NotifyDone

LoopSpec ==
  /\ SubInit
  /\ [][LoopNext]_vars
  /\ WF_pc(Visit)
  /\ WF_pc(ListenerReturn)
  /\ WF_pc(NotifyDone)

\* createMachine with transformers that call the machine
NestInit == Init /\ variant = "createMachine"

NestNext ==
  \/ Get
  \/ Subscribe
  \/ TransformerEnter
  \/ TransformerReturn
  \/ ActionFn
  \/ ListenerEnter
  \/ ListenerReturn
  \/ NotifyDone

NestSpec == NestInit /\ [][NestNext]_vars

\* createMachine constructed from any table of two states, without listeners
PrevInit ==
  /\ variant = "createMachine"
  /\ transitionsMap \in Tables
  /\ keys \in Orders
  /\ currentState \in DOMAIN transitionsMap
  /\ Construct

PrevNext ==
  \/ GetPrevStates
  \/ ActionFn
  \/ NotifyDone

PrevSpec == PrevInit /\ [][PrevNext]_vars

TypeOK ==
  /\ variant \in Variants
  /\ currentState \in DOMAIN transitionsMap
  /\ Elems(keys) = DOMAIN transitionsMap
  /\ DOMAIN prevStatesMap = DOMAIN transitionsMap
  /\ currentVersion \in Snapshots
  /\ currentSnapshot \in Snapshots
  /\ pc \in {"idle", "notifying", "listener", "transformer"}
  /\ idx \in 0..Len(listeners)
  /\ (pc \in {"idle", "transformer"}) = ~notifying
  /\ pc = "transformer" => outer # NoOuter
  /\ pc = "idle" => previous = Saved

(***************************************************************************)
(* The claims.                                                             *)
(***************************************************************************)
\* the current snapshot can be read
CurrentReadable ==
  /\ state(currentSnapshot) # StaleSnapshot
  /\ value(currentSnapshot) # Throw
  /\ actions(currentSnapshot) = "ok"

\* C1 as stated: once an action call has returned, every snapshot obtained before
\* it throws StaleSnapshot on state, value, actions, on a property read of its
\* actions object and on a call of an action function extracted from it, and the
\* current snapshot can be read.
C1_Original ==
  /\ \A v \in superseded :
       /\ state(v) = StaleSnapshot
       /\ value(v) = Throw
       /\ actions(v) = StaleSnapshot
       /\ check(v) = StaleSnapshot
  /\ CurrentReadable

\* C1 (amended): once an action call has returned, every snapshot obtained before
\* it throws StaleSnapshot on state, value, actions and on a property read of its
\* actions object; a call of an action function extracted from it throws
\* StaleSnapshot outside a notification cycle and IllegalTransition inside one;
\* the current snapshot can be read.
C1_Freshness ==
  /\ \A v \in superseded :
       /\ state(v) = StaleSnapshot
       /\ value(v) = Throw
       /\ actions(v) = StaleSnapshot
       /\ check(v) = IF notifying THEN IllegalTransition ELSE StaleSnapshot
  /\ CurrentReadable
  /\ (last.op = "read" /\ ~last.fresh) => last.res = StaleSnapshot
  /\ (last.op = "call" /\ ~last.fresh /\ pc = "idle" /\ last.arg = "check")
       => last.res = StaleSnapshot

\* outside any call, an action function of a snapshot left behind was called and threw
C1_Witness ==
  /\ pc = "idle"
  /\ superseded # {}
  /\ last.op = "call"
  /\ ~last.fresh
  /\ last.res = StaleSnapshot

\* C2: outside an action call, get() is the snapshot returned by the latest action
\* call that returned, or the initial snapshot when none has returned.
C2_SingleLive ==
  pc = "idle" => getResult("undefined") = returned

\* get() was called after an action call returned and a later one was rolled back
C2_Witness ==
  /\ pc = "idle"
  /\ returned = 2
  /\ nextVersion > 3
  /\ currentVersion = 2
  /\ last.op = "get"
  /\ last.ret = returned

\* C3: in createMachine a call whose transformer throws gives the error to its
\* caller and leaves state, value, version and current snapshot as they were,
\* get() and the accessors of the current snapshot included; no listener is
\* invoked and nothing is reported.
C3_TransformerFailure ==
  [][(variant = "createMachine" /\ failures' # failures) =>
       /\ last'.op = "call"
       /\ last'.res = "TransformerError"
       /\ UNCHANGED machine
       /\ getResult("undefined")' = getResult("undefined")
       /\ state(currentSnapshot)' = state(currentSnapshot)
       /\ value(currentSnapshot)' = value(currentSnapshot)
       /\ CurrentReadable'
       /\ UNCHANGED <<invoked, reported, listeners, notifying, pc>>]_vars

\* a transformer threw while listeners were registered
C3_Witness ==
  /\ variant = "createMachine"
  /\ last.op = "call"
  /\ last.res = "TransformerError"
  /\ listeners # <<>>

\* C4 as stated: in createStore a call whose value the schema rejects fails and
\* leaves state, value, version and current snapshot as they were; no listener
\* is notified.
C4_ValidatedBeforeCommit ==
  [][(variant = "createStore" /\ failures' # failures) =>
       /\ last'.res = "InvalidValue"
       /\ UNCHANGED machine
       /\ state(currentSnapshot)' = state(currentSnapshot)
       /\ actionsOf(transitionsMap, currentState, currentVersion)'
            = actionsOf(transitionsMap, currentState, currentVersion)
       /\ UNCHANGED <<invoked, reported>>]_vars

\* C5: an action function called by a listener throws IllegalTransition; no
\* transformer or schema runs, state, value, version and current snapshot stay
\* as they are, and the end of the cycle does not run the call either.
C5_ReentrancyRejected ==
  [][/\ (pc = "listener" /\ last'.op = "call" /\ ops' = ops + 1) =>
          /\ last'.res = IllegalTransition
          /\ UNCHANGED <<machine, failures, nextVersion, notifying, listeners, pc, idx>>
     /\ (pc = "notifying" /\ pc' = "idle") => UNCHANGED machine]_vars

\* a listener called an action function of the current snapshot
C5_Witness ==
  /\ pc = "listener"
  /\ last.op = "call"
  /\ last.fresh
  /\ last.res = IllegalTransition

C7_Rollback ==
  (variant = "createStore" /\ pc = "idle" /\ last.op = "call" /\ last.arg = "listener") =>
     /\ Saved = previous
     /\ getResult("undefined") = returned
     /\ CurrentReadable
     /\ actions(returned) = "ok"
     /\ check(returned) = "ok"

\* a transition was rolled back: its version was minted and is not the live one
C7_Witness ==
  /\ variant = "createStore"
  /\ pc = "idle"
  /\ last.op = "call"
  /\ last.arg = "listener"
  /\ nextVersion > currentVersion + 1

\* C8 as stated: a snapshot that throws StaleSnapshot throws it ever after.
C8_Original ==
  [][\A v \in Snapshots : ~assertVersion(v) => ~assertVersion(v)']_vars

\* stale, and not the snapshot a running action call of createStore would roll back to
Inert(v) ==
  /\ ~assertVersion(v)
  /\ (variant = "createStore" /\ pc # "idle") => v # previous.version

\* C8 (amended): a stale snapshot stays stale for ever, except the snapshot of
\* before the running action call of createStore, which is stale during the
\* notification cycle and fresh again when the transition is rolled back.
C8_Permanent ==
  [][\A v \in Snapshots : Inert(v) => (Inert(v)' /\ ~assertVersion(v)')]_vars

\* a snapshot left behind is still stale after a later transition was rolled back
C8_Witness ==
  /\ variant = "createStore"
  /\ pc = "idle"
  /\ last.op = "call"
  /\ last.arg = "listener"
  /\ superseded # {}
  /\ \A v \in superseded : state(v) = StaleSnapshot

\* C9 as stated: a snapshot created in state S is the result of get(S) exactly
\* when it is fresh.
C9_FreshnessIdiom ==
  \A v \in Snapshots : (getResult(created[v].state) = v) <=> assertVersion(v)

\* C10: get(expectedState) is the current snapshot, the one get() returns, exactly
\* when expectedState is the live state, and undefined otherwise; the empty
\* string is a state like any other.
C10_GetExpected ==
  /\ getResult("undefined") = currentSnapshot
  /\ \A e \in DOMAIN transitionsMap :
       getResult(e) = IF e = currentState THEN currentSnapshot ELSE 0
  /\ (last.op = "get" /\ last.arg = "''") => (last.ret # 0 <=> currentState = "")
  /\ (last.op = "get" /\ last.ret # 0) => last.ret = currentSnapshot

\* get('') returned the current snapshot after a transition into ''
C10_Witness ==
  /\ currentState = ""
  /\ currentVersion > 1
  /\ last.op = "get"
  /\ last.arg = "''"
  /\ last.ret = currentSnapshot

\* the argument lists of one or two states of the transitions map
Tuples ==
  {<<a>> : a \in DOMAIN transitionsMap}
    \cup {<<a, b>> : a \in DOMAIN transitionsMap, b \in DOMAIN transitionsMap}

\* C11: assert(s1, ..., sn) returns the current snapshot, the one get() returns,
\* when the live state is one of s1..sn and throws UnexpectedState otherwise; it
\* changes neither state, value, version, current snapshot nor the listeners.
\* In turningGreen assert('red', 'green') throws and
\* assert('turningGreen', 'turningRed') succeeds.
C11_AssertStates ==
  /\ [](/\ \A es \in Tuples : some(es) <=> currentState \in Range(es)
        /\ currentState = "turningGreen" =>
             (~some(<<"red", "green">>) /\ some(<<"turningGreen", "turningRed">>))
        /\ last.op = "assert" =>
             IF currentState \in Range(last.arg)
             THEN last.res = "ok" /\ last.ret = getResult("undefined")
             ELSE last.res = UnexpectedState /\ last.ret = 0)
  /\ [][last'.op = "assert" => UNCHANGED <<machine, listeners, notifying>>]_vars

\* assert('red', 'green') threw while the machine was in turningGreen
C11_Witness ==
  /\ currentState = "turningGreen"
  /\ last.op = "assert"
  /\ last.arg = <<"red", "green">>
  /\ last.res = UnexpectedState

\* C12 as stated: a read of a property name that is no action of the live
\* state from the actions of the fresh snapshot throws UnknownAction.
C12_UnknownRejected ==
  \A actionName \in PropertyNames :
    newStateOf(actionName) = "undefined" =>
      actionsGet(variant, currentVersion, actionName) = UnknownAction

\* C13 as stated: a get() returns the snapshot the get before it returned when no
\* transition was committed between the two, whatever else happened in between.
C13_Original ==
  gotten # 0 => getResult("undefined") = gotten

\* versions are minted in increasing order: a snapshot minted after the current
\* one belongs to a transition that was rolled back
RolledBack == {v \in Snapshots : v > currentSnapshot}

\* C13 (amended): a get() returns the snapshot the get before it returned when no
\* transition was committed between the two and none was rolled back: in
\* createStore a listener gets the new snapshot during the cycle, and after the
\* rollback get() is the snapshot of before the transition again.
C13_Stable ==
  /\ gotten # 0 => (getResult("undefined") = gotten \/ gotten \in RolledBack)
  /\ variant = "createMachine" => RolledBack = {}
  /\ (last.op = "get" /\ last.ret # 0) => last.ret = gotten

\* get() returned a snapshot, then an action call failed: get() is still that snapshot
C13_Witness ==
  /\ gotten # 0
  /\ last.op = "call"
  /\ last.res \in {"TransformerError", "InvalidValue", StaleSnapshot, TypeError}
  /\ getResult("undefined") = gotten

\* the position of the latest invocation of a listener in the running cycle
LastPos(l) == CHOOSE i \in 1..Len(invoked) : invoked[i] = l /\ \A j \in (i + 1)..Len(invoked) : invoked[j] # l

\* C18: in a notification cycle the listeners are invoked in the order of their
\* registration: the listeners the loop has passed are the first ones in
\* registration order, each was invoked, and an earlier registered one before a
\* later registered one.
C18_NotificationOrder ==
  /\ [](pc \in {"notifying", "listener"} =>
          /\ idx <= Len(registered)
          /\ \A i \in 1..idx : registered[i] \in Elems(invoked)
          /\ \A i, j \in 1..idx :
               i < j => LastPos(registered[i]) < LastPos(registered[j]))
  /\ [][(pc = "notifying" /\ pc' = "listener") =>
         (idx < Len(registered) /\ invoked' = invoked \o <<registered[idx + 1]>>)]_vars

\* listener 2 was registered before listener 1, and the cycle invoked 2 before 1
C18_Witness ==
  /\ pc = "notifying"
  /\ registered = <<2, 1>>
  /\ idx = 2
  /\ invoked = <<2, 1>>

\* how often the running cycle has invoked a listener
Times(l) == Cardinality({i \in 1..Len(invoked) : invoked[i] = l})

\* C14 as stated: a listener function registered by two subscribe calls, none of
\* them cancelled, is invoked twice in a notification cycle.
C14_RegisteredTwice ==
  (pc = "notifying" /\ idx = Len(listeners) /\ ~touched) =>
     \A l \in Listeners : Cardinality(Active(l)) = 2 => Times(l) = 2

\* C15 as stated: the unsubscribe function or the signal of one subscribe call
\* removes that registration only; a listener with another registration that is
\* still active keeps being notified.
C15_Independent ==
  \A l \in Listeners : Active(l) # {} => l \in Elems(listeners)

\* C16 as stated: a call of an unsubscribe function whose registration is
\* cancelled already, and the signal of such a registration, leave the set of
\* listeners as it is.
C16_Idempotent ==
  [][\A r \in DOMAIN registrations :
       (last'.op \in {"unsubscribe", "abort"} /\ last'.arg = r /\ ~registrations[r].active)
         => listeners' = listeners]_vars

\* C17: when the signal of a registration fires, or its unsubscribe function is
\* called, its listener leaves the set of listeners and the other listeners
\* stay in it, in their order; a listener is in the set only while one of its
\* registrations is active, it comes back only by a subscribe call, and the
\* loop invokes none but members of the set, in the running cycle as well as
\* in later ones.
C17_Cancellation ==
  /\ [](\A l \in Elems(listeners) : Active(l) # {})
  /\ [][/\ \A r \in DOMAIN registrations :
            (last'.op \in {"unsubscribe", "abort"} /\ last'.arg = r /\ registrations[r].active)
              => /\ registrations[r].listener \notin Elems(listeners')
                 /\ listeners' = SelectSeq(listeners, LAMBDA x : x # registrations[r].listener)
        /\ (pc = "notifying" /\ pc' = "listener")
              => invoked'[Len(invoked')] \in Elems(listeners)
        /\ \A l \in Listeners :
             (l \notin Elems(listeners) /\ l \in Elems(listeners')) => last'.op = "subscribe"]_vars

\* the signal of a registration has fired, and a cycle has invoked another
\* listener and not the one of that registration
C17_Witness ==
  /\ pc = "notifying"
  /\ idx = Len(listeners)
  /\ invoked # <<>>
  /\ \E r \in DOMAIN registrations :
       /\ registrations[r].signal = "fired"
       /\ registrations[r].listener \notin Elems(invoked)

\* C19 as stated: when no action call is running the notifying flag is clear,
\* whether the latest one returned or threw, the error sink throwing included:
\* an action function of the current snapshot, called outside a listener, does
\* not throw IllegalTransition.
C19_FlagReleased ==
  pc = "idle" => (~notifying /\ check(currentVersion) # IllegalTransition)

\* C20: in createMachine an action function of the fresh snapshot of state S,
\* called with args outside a notification cycle, makes the live state
\* transitionsMap[S][a] and the live value the result of the transformer of that
\* state for args, and when it returns, it returns the snapshot get() returns,
\* whose state and value accessors give that state and that value.
C20_ActionResult ==
  [][variant = "createMachine" =>
       /\ last'.op = "commit" =>
            /\ ~notifying
            /\ created[currentVersion].state = currentState
            /\ \E a \in DOMAIN transitionsMap[currentState] :
                 currentState' = transitionsMap[currentState][a]
            /\ currentValue' = transformerMap(currentState', last'.arg)
            /\ currentSnapshot' \notin Snapshots
            /\ created'[currentSnapshot'] = [state |-> currentState', value |-> currentValue']
       /\ (last'.op = "call" /\ last'.res = "ok") =>
            /\ UNCHANGED machine
            /\ last'.ret = getResult("undefined")
            /\ state(last'.ret) = created[last'.ret].state
            /\ value(last'.ret) = created[last'.ret].value]_vars

\* turnGreen('#FFFF00') has returned the snapshot of turningGreen
C20_Witness ==
  /\ variant = "createMachine"
  /\ pc = "idle"
  /\ last.op = "call"
  /\ last.res = "ok"
  /\ last.ret = currentSnapshot
  /\ state(last.ret) = "turningGreen"
  /\ value(last.ret) = [color |-> "#FFFF00"]

\* the position of a state in the order of the keys of the table
KeyPos(st) == CHOOSE i \in 1..Len(keys) : keys[i] = st

\* C21: for every state D, getPrevStates(D) holds exactly the states that have an
\* action whose destination is D, a state with an action into itself included,
\* in the order of the keys of the transitions table; for the table
\* {A: {go: B}, B: {back: A}} it is [B] for A and [A] for B; the lists are those
\* of the construction, whatever transitions were made.
C21_Predecessors ==
  /\ [](/\ \A D \in DOMAIN transitionsMap :
            /\ Elems(getPrevStates(D)) =
                 {S \in DOMAIN transitionsMap :
                    \E a \in DOMAIN transitionsMap[S] : transitionsMap[S][a] = D}
            /\ \A i, j \in 1..Len(getPrevStates(D)) :
                 i < j => KeyPos(getPrevStates(D)[i]) < KeyPos(getPrevStates(D)[j])
        /\ transitionsMap = [s \in States |-> IF s = "A" THEN [go |-> "B"] ELSE [back |-> "A"]]
             => (getPrevStates("A") = <<"B">> /\ getPrevStates("B") = <<"A">>)
        /\ last.op = "getPrevStates" => last.arg[2] = getPrevStates(last.arg[1]))
  /\ [][UNCHANGED prevStatesMap]_vars

\* after a transition, getPrevStates of a state that has an action into itself
\* and is the destination of an action of the other state gave both states, in
\* the order of the keys of the table
C21_Witness ==
  /\ currentVersion > 1
  /\ pc = "idle"
  /\ last.op = "getPrevStates"
  /\ last.arg[1] = "A"
  /\ last.arg[2] = <<"B", "A">>
  /\ keys = <<"B", "A">>

C23_FrozenCycle ==
  /\ [](pc \in {"notifying", "listener"} =>
          /\ getResult("undefined") = currentSnapshot
          /\ getResult("undefined") # previous.snapshot
          /\ gotten # 0 => gotten = getResult("undefined")
          /\ (last.op = "get" /\ last.ret # 0) => last.ret = gotten
          /\ CurrentReadable
          /\ state(currentSnapshot) = created[currentSnapshot].state
          /\ value(currentSnapshot) = created[currentSnapshot].value
          /\ variant = "createMachine" =>
               state(currentSnapshot) \in Range(transitionsMap[previous.state]))
  /\ [][/\ last'.op = "commit" =>
            /\ created'[currentSnapshot'] = [state |-> currentState', value |-> currentValue']
            /\ gotten' = 0
            /\ invoked' = <<>>
        /\ (pc \in {"notifying", "listener"} /\ pc' # "idle") => UNCHANGED machine]_vars

\* the second listener of a cycle called get() and got the snapshot of the
\* destination state
C23_Witness ==
  /\ pc = "listener"
  /\ Len(invoked) = 2
  /\ last.op = "get"
  /\ last.ret = currentSnapshot
  /\ previous.state = "red"
  /\ state(last.ret) = "turningGreen"

\* C24: in createMachine a listener that is registered from the start of a
\* notification cycle to its end is invoked exactly once by every action call
\* that returns; an action call that fails (stale snapshot, call made by a
\* listener, name that is no action, transformer that throws) and a get, assert,
\* subscribe or unsubscribe call invoke nobody and start no cycle; outside an
\* action call, from the construction on, no listener has been invoked.
C24_OncePerCommit ==
  /\ [](pc = "idle" => (invoked = <<>> /\ changed = {}))
  /\ [][variant = "createMachine" =>
         /\ (pc # "idle" /\ pc' = "idle") =>
              /\ last'.res = "ok"
              /\ \A l \in Elems(listeners) \ changed : Times(l) = 1
         /\ (\/ last'.op \in {"get", "assert", "subscribe", "unsubscribe", "read", "actions.get"}
             \/ (last'.op = "call" /\ last'.arg \in {"check", "value"})) =>
              UNCHANGED <<invoked, pc, notifying>>
         /\ invoked' # invoked =>
              \/ pc = "notifying" /\ pc' = "listener" /\ Len(invoked') = Len(invoked) + 1
              \/ pc = "notifying" /\ pc' = "idle" /\ invoked' = <<>>]_vars

\* a cycle with two listeners is over: the first one has unsubscribed the second
\* one before its turn, and has been invoked once itself
C24_Witness ==
  /\ variant = "createMachine"
  /\ pc = "notifying"
  /\ idx = Len(listeners)
  /\ listeners = <<1>>
  /\ changed = {2}
  /\ invoked = <<1>>

\* C25: in createStore, when a listener throws, the cycle is over: the listeners
\* behind it in the set have not been invoked in this cycle and are not invoked
\* any more, and the action call throws the error of that listener: its own
\* one, or the one thrown by the call it made, which is IllegalTransition when
\* that call was an action call; the cycle goes on behind a listener only when
\* it has returned, and no error is caught and reported.
C25_RollbackDelivery ==
  /\ []((variant = "createStore" /\ pc \in {"notifying", "listener"}) =>
          \A i \in (idx + 1)..Len(listeners) :
             listeners[i] \in Elems(invoked) => listeners[i] \in changed)
  /\ [][(variant = "createStore" /\ pc = "listener" /\ pc' # "listener") =>
         \/ /\ pc' = "notifying"
            /\ last'.res = "pending"
            /\ UNCHANGED <<invoked, idx, machine, reported>>
         \/ /\ pc' = "idle"
            /\ ~notifying'
            /\ invoked' = <<>>
            /\ last'.op = "call"
            /\ last'.arg = "listener"
            /\ \/ last'.res = "oops"
               \/ last.inListener /\ last.res # "ok" /\ last'.res = last.res
            /\ (last.op = "call" /\ last'.res # "oops") => last'.res = IllegalTransition]_vars

\* the first of two listeners called an action function and threw its error:
\* the action call threw IllegalTransition and the transition is rolled back
C25_Witness ==
  /\ variant = "createStore"
  /\ pc = "idle"
  /\ Len(listeners) = 2
  /\ last.op = "call"
  /\ last.arg = "listener"
  /\ last.res = IllegalTransition
  /\ nextVersion > currentVersion + 1

\* C26 as stated: the state a listener reads from get() during a cycle is the
\* live state of the machine when the action call that started the cycle is
\* over, whether it returns or throws.
C26_Original ==
  [][(pc # "idle" /\ pc' = "idle" /\ gotten # 0) =>
       created[gotten].state = currentState']_vars

\* C26 (amended): a cycle starts outside any other cycle only, and the state a
\* listener reads from get() during it is the destination of the transition
\* that started it.  When the action call returns, which it always does in
\* createMachine, that state is the live state; when a later listener makes the
\* action call of createStore throw, the live state is the one of before the
\* call again, and the listener has read a state of a transition that was
\* rolled back.
C26_CommitOrder ==
  /\ []((pc # "idle" /\ gotten # 0) =>
          (gotten = currentSnapshot /\ created[gotten].state = currentState))
  /\ [][/\ last'.op = "commit" => (pc = "idle" /\ gotten' = 0)
        /\ (pc # "idle" /\ pc' = "idle" /\ last'.res = "ok") =>
             /\ currentState' = currentState
             /\ gotten # 0 => created[gotten].state = currentState'
        /\ (pc # "idle" /\ pc' = "idle" /\ last'.res # "ok") =>
             /\ variant = "createStore"
             /\ currentState' = previous.state
             /\ gotten # 0 => gotten \in RolledBack']_vars

\* a listener of createStore has read the destination state from get(), and the
\* transition was rolled back
C26_Witness ==
  /\ variant = "createStore"
  /\ pc = "idle"
  /\ last.op = "call"
  /\ last.arg = "listener"
  /\ gotten \in RolledBack
  /\ created[gotten].state = "turningGreen"
  /\ currentState = "red"

\* C27 as stated: every read of the state accessor of a snapshot that does not
\* throw gives the state the machine had when the snapshot was created, and
\* every read of its value accessor that does not throw gives the value the
\* machine had then, whatever calls were made in between, failed ones included.
C27_Immutable ==
  \A v \in Snapshots :
    /\ state(v) # StaleSnapshot => state(v) = created[v].state
    /\ value(v) # Throw => value(v) = created[v].value

\* C28: an action function tests the notification cycle first, the freshness of
\* its snapshot second, and computes the value third: called during a cycle it
\* throws IllegalTransition, also when its snapshot is stale; called outside a
\* cycle on a stale snapshot it throws StaleSnapshot; in both cases neither a
\* transformer nor a schema runs, and nothing is assigned.
C28_CheckOrder ==
  /\ [](\A v \in Snapshots :
          check(v) = IF notifying THEN IllegalTransition
                     ELSE IF v # currentVersion THEN StaleSnapshot
                     ELSE "ok")
  /\ [][/\ (last'.op = "call" /\ last'.arg = "check") =>
             /\ last'.res = IF notifying THEN IllegalTransition
                            ELSE IF ~last'.fresh THEN StaleSnapshot
                            ELSE TypeError
             /\ UNCHANGED <<machine, failures, nextVersion, created, notifying, pc>>
        /\ (failures' # failures \/ last'.op = "commit") =>
             (~notifying /\ pc = "idle" /\ last'.fresh)]_vars

\* a listener called an action function of a stale snapshot: IllegalTransition
C28_Witness ==
  /\ pc = "listener"
  /\ notifying
  /\ last.op = "call"
  /\ last.arg = "check"
  /\ ~last.fresh
  /\ last.res = IllegalTransition

\* C29: a transition whose destination is its source state and whose new value
\* equals the old one is a transition like any other: it mints a version and
\* creates a snapshot that is not the one of before, which is stale from then
\* on, and it notifies the listeners; when the call returns, it returns the new
\* snapshot.
C29_SelfLoopMints ==
  [][/\ (last'.op = "commit" /\ currentState' = currentState /\ currentValue' = currentValue) =>
          /\ currentVersion' \notin Snapshots
          /\ currentSnapshot' \notin Snapshots
          /\ currentVersion' # currentSnapshot
          /\ currentSnapshot' = getResult("undefined")'
          /\ notifying'
          /\ pc' = "notifying"
     /\ (pc = "notifying" /\ pc' = "idle"
          /\ created[currentSnapshot] = created[previous.snapshot]) =>
          /\ last'.ret = currentSnapshot
          /\ last'.ret # previous.snapshot
          /\ state(previous.snapshot) = StaleSnapshot
          /\ value(previous.snapshot) = Throw
          /\ \A l \in Elems(listeners) \ changed : Times(l) = 1]_vars

\* set('#FF0000') of the table {current: {set: current}} has returned in state
\* current with the value it had before, a listener being registered
C29_Witness ==
  /\ transitionsMap = SelfLoop
  /\ pc = "idle"
  /\ listeners # <<>>
  /\ last.op = "call"
  /\ last.res = "ok"
  /\ last.ret = 2
  /\ created[2] = created[1]
  /\ state(1) = StaleSnapshot

\* C30: a call of an action function of a stale snapshot, made outside a
\* notification cycle, throws StaleSnapshot and has no effect: state, value,
\* version, current snapshot and the listeners are as before, no transformer or
\* schema runs, no listener is invoked, and nothing is left behind that could
\* run the call later.
C30_StaleCallNoEffect ==
  /\ [](\A v \in Snapshots : (v # currentVersion /\ ~notifying) => check(v) = StaleSnapshot)
  /\ [][/\ (last'.op = "call" /\ last'.arg = "check" /\ last'.res = StaleSnapshot) =>
             /\ pc = "idle"
             /\ ~notifying
             /\ ~last'.fresh
             /\ getResult("undefined")' = getResult("undefined")
             /\ UNCHANGED <<machine, listeners, notifying, pc, idx, previous, nextVersion,
                            failures, created, invoked, reported, returned>>
        /\ currentVersion' # currentVersion =>
             (last'.op = "commit" \/ (last'.op = "call" /\ last'.arg = "listener"))]_vars

\* after a transition, an action function of the snapshot of before it was
\* called outside a cycle, a listener being registered
C30_Witness ==
  /\ pc = "idle"
  /\ currentVersion > 1
  /\ listeners # <<>>
  /\ last.op = "call"
  /\ last.arg = "check"
  /\ last.res = StaleSnapshot

\* the listeners the loop of the running cycle has passed, and those it has not
Visited == SubSeq(listeners, 1, idx)

Unvisited == SubSeq(listeners, idx + 1, Len(listeners))

\* C31: when a listener removes another one during a cycle, by its unsubscribe
\* function or by its signal, before the loop has reached it, the loop does
\* not invoke the removed one: it leaves the set, the listeners still to be
\* visited are the others, in their order, and the loop invokes members of the
\* set only; the listeners passed already stay passed and stay registered.
C31_RemovalInCycle ==
  [][/\ \A r \in DOMAIN registrations :
          (/\ pc = "listener"
           /\ last'.op \in {"unsubscribe", "abort"}
           /\ last'.arg = r
           /\ registrations[r].active
           /\ registrations[r].listener \in Elems(Unvisited)) =>
             LET l == registrations[r].listener
             IN /\ l \notin Elems(listeners')
                /\ Unvisited' = SelectSeq(Unvisited, LAMBDA x : x # l)
                /\ Visited' = Visited
                /\ UNCHANGED <<invoked, pc, notifying, machine>>
     /\ (pc = "notifying" /\ pc' = "listener") =>
          /\ Unvisited # <<>>
          /\ invoked' = Append(invoked, Unvisited[1])
          /\ Unvisited' = Tail(Unvisited)
     /\ (pc = "notifying" /\ pc' = "idle") => Unvisited = <<>>]_vars

\* the first listener has called the unsubscribe function of the second one,
\* registered with a signal, and the cycle is over without the second one
C31_Witness ==
  /\ pc = "notifying"
  /\ idx = Len(listeners)
  /\ invoked = <<1>>
  /\ changed = {2}
  /\ listeners = <<1>>
  /\ \E r \in DOMAIN registrations :
       registrations[r].listener = 2 /\ registrations[r].signal = "detached"

\* C32 as stated: in one notification cycle the listener of no subscribe call
\* is invoked a second time while that call is not cancelled, whatever the
\* listeners do during the cycle.
C32_AtMostOnce ==
  [][(pc = "notifying" /\ pc' = "listener") =>
       Active(listeners[idx + 1]) \cap delivered = {}]_vars

\* C33 as stated, for the variant that logs and continues: in a notification
\* cycle console.error has been called exactly once for every listener
\* invocation that threw, with the error that invocation threw, in the order
\* of the throws; a step that is not a listener throwing (a listener returning,
\* an action call that fails before its commit, a commit) calls it not at all;
\* the error of an action attempt made inside a listener is reported likewise.
C33_SinkReports ==
  /\ [](variant = "createMachine" =>
          /\ sunk = thrown
          /\ reported = Len(sunk)
          /\ Len(thrown) <= Len(invoked))
  /\ [][variant = "createMachine" =>
          /\ (pc = "listener" /\ pc' = "notifying") =>
               \/ UNCHANGED <<thrown, sunk>>
               \/ \E error \in Errors :
                    /\ thrown' = Append(thrown, error)
                    /\ sunk' = Append(sunk, error)
                    /\ UNCHANGED <<invoked, idx, machine>>
          /\ (pc = "notifying" /\ pc' = "listener") => UNCHANGED <<thrown, sunk>>
          /\ (pc = "idle" /\ pc' = "idle") => sunk' = <<>>
          /\ (pc = "idle" /\ pc' = "notifying") => sunk' = <<>>]_vars

C33_Witness ==
  /\ variant = "createMachine"
  /\ pc = "notifying"
  /\ invoked = <<1, 2>>
  /\ sunk = <<"oops", IllegalTransition>>

\* C34: getPrevStates(D) never holds the same state twice, also when a state
\* has several actions whose destination is D: its length is the number of
\* states that lead to D.
C34_SetSemantics ==
  /\ \A D \in DOMAIN transitionsMap :
       /\ \A i, j \in 1..Len(getPrevStates(D)) :
            i # j => getPrevStates(D)[i] # getPrevStates(D)[j]
       /\ Len(getPrevStates(D)) =
            Cardinality({S \in DOMAIN transitionsMap : D \in Range(transitionsMap[S])})
  /\ last.op = "getPrevStates" =>
       Len(last.arg[2]) = Cardinality(Elems(last.arg[2]))

\* getPrevStates of a state that two actions of the other state lead to gave
\* that state once
C34_Witness ==
  /\ variant = "createMachine"
  /\ DOMAIN transitionsMap = States
  /\ DOMAIN transitionsMap["A"] = ActionNames
  /\ transitionsMap["A"]["go"] = "B"
  /\ transitionsMap["A"]["back"] = "B"
  /\ last.op = "getPrevStates"
  /\ last.arg = <<"B", <<"A">>>>

\* C35 as stated: every commit leads from the live state s to a state that
\* some action of transitionsMap[s] names, whatever the sequence of action
\* calls, action calls made by a transformer included.
C35_TableConformance ==
  [][nextVersion' # nextVersion => currentState' \in Range(transitionsMap[currentState])]_vars

\* C36 as stated: whoever holds a snapshot and whenever they call, at most one
\* action call made through that snapshot returns a snapshot, and once one
\* has, every action call made through it throws StaleSnapshot.
C36_OneSuccess ==
  /\ \A i, j \in 1..Len(successes) : i # j => successes[i] # successes[j]
  /\ \A version \in Elems(successes) :
       (pc \in {"idle", "listener", "transformer"}) => check(version) = StaleSnapshot

\* C37 as stated: every action call terminates when each listener invocation
\* terminates: a notification cycle that has begun ends, also when listeners
\* subscribe, unsubscribe or subscribe again during the cycle.
C37_Termination == (pc # "idle") ~> (pc = "idle")

\* C38: subscribe and unsubscribe called by a listener during a notification
\* cycle take effect at once and do not throw; a listener subscribed in the
\* cycle goes behind all listeners registered before it, and the loop, which
\* invokes the listeners in that order and ends only behind the last one,
\* invokes it in the same cycle after them.
C38_SubscribedInCycle ==
  [][/\ (pc = "listener" /\ last'.op = "subscribe") =>
          /\ last'.res = "ok"
          /\ pc' = "listener"
          /\ \/ UNCHANGED <<listeners, idx, changed>>
             \/ \E l \in Listeners \ Elems(listeners) :
                  /\ listeners' = Append(listeners, l)
                  /\ idx' = idx
                  /\ changed' = changed \cup {l}
     /\ (pc = "listener" /\ last'.op = "unsubscribe") =>
          /\ last'.res = "ok"
          /\ pc' = "listener"
          /\ Len(listeners') = Len(listeners) - 1
     /\ (pc = "notifying" /\ pc' = "listener") =>
          /\ invoked' = Append(invoked, listeners[idx + 1])
          /\ Elems(SubSeq(listeners, 1, idx)) \subseteq Elems(invoked)
     /\ (pc = "notifying" /\ pc' = "idle") =>
          (changed \cap Elems(listeners)) \subseteq Elems(invoked)]_vars

\* the first listener has subscribed a second one, and the same cycle has
\* invoked it
C38_Witness ==
  /\ pc = "listener"
  /\ listeners = <<1, 2>>
  /\ registered = <<1, 2>>
  /\ changed = {2}
  /\ invoked = <<1, 2>>
  /\ idx = 2

\* C39 as stated: a subscribe call whose signal had fired before the call
\* registers its listener, and until the unsubscribe function of that call is
\* called the listener stays registered and every notification cycle that
\* runs to its end has invoked it.
C39_AlreadyFired ==
  /\ [](\A r \in DOMAIN registrations :
          (registrations[r].signal = "aborted" /\ registrations[r].active) =>
            registrations[r].listener \in Elems(listeners))
  /\ [][\A r \in DOMAIN registrations :
          (/\ registrations[r].signal = "aborted"
           /\ registrations[r].active
           /\ registrations'[r].active
           /\ pc = "notifying"
           /\ pc' = "idle") => registrations[r].listener \in Elems(invoked)]_vars
====
